---- MODULE Spec2Model ----
(***************************************************************************)
(* The three scripts of scripts/: add_jobs_fields.py (schema extender),    *)
(* csv_to_geojson.py (geo converter) and scrape_careers.py (careers stub). *)
(* Each script is a sequential program over data/datacenters.csv; a file   *)
(* is a sequence of lines, the first one the header, a line a sequence of  *)
(* cells, a cell a string.                                                 *)
(***************************************************************************)
EXTENDS Integers, Sequences, FiniteSets, TLC

VARIABLES
    pc,          \* position of the running script
    csv,         \* data/datacenters.csv on disk: <<header line, data lines...>>
    orig,        \* the content of csv when the script started
    header,      \* local: reader.fieldnames
    rows,        \* local: list(reader), a sequence of dicts
    new_header,  \* local of add_jobs_fields
    idx,         \* number of rows the running loop has consumed
    features,    \* local of csv_to_geojson
    geojson,     \* data/datacenters.geojson on disk
    raised,      \* the exception that left the function, "none" if none
    arg,         \* the arguments of the function under call
    result,      \* what the function returned
    clock,       \* datetime.now()
    updated,     \* local of update_csv_with_careers
    stdout       \* what was printed

vars == <<pc, csv, orig, header, rows, new_header, idx, features, geojson,
          raised, arg, result, clock, updated, stdout>>

\* ------------------------------------------------------------------ bounds

\* longest cell text the numeric conversion is tried on
MaxLen == 3
\* most data lines of a file
MaxRows == 2
\* latest reading of the clock
MaxClock == 2

\* ------------------------------------------------------------------ strings

\* The characters numeric cell texts are built from: two digits, the decimal
\* point, the sign and a letter.
Alphabet == {"4", "2", ".", "-", "a"}

RECURSIVE Join(_)
\* ''.join(cs)
Join(cs) == IF cs = <<>> THEN "" ELSE Head(cs) \o Join(Tail(cs))

CharSeqs == UNION {[1..n -> Alphabet] : n \in 0..MaxLen}

\* Operator, city and state names the careers stub is run on, by character.
Words ==
    { <<"M","e","t","a">>, <<"G","o","o","g","l","e">>, <<"A","c","m","e">>,
      <<"A","T","&","T">>, <<"A","u","s","t","i","n">>,
      <<"N","e","w"," ","Y","o","r","k">>, <<"T","X">>, <<"N","Y">> }

\* the characters of each text: list(s)
CharTable == [s \in {Join(cs) : cs \in CharSeqs \cup Words} |->
                 CHOOSE cs \in CharSeqs \cup Words : Join(cs) = s]

Chars(s) == CharTable[s]

Texts == {Join(cs) : cs \in CharSeqs}

\* ------------------------------------------------------------------ values

\* A Python value: None, a str, an int, a float n / 10^e, or a raised exception.
None == [t |-> "None", s |-> "", n |-> 0, e |-> 0]
Str(s) == [t |-> "str", s |-> s, n |-> 0, e |-> 0]
IntVal(n) == [t |-> "int", s |-> "", n |-> n, e |-> 0]
Raise(exc) == [t |-> "raise", s |-> exc, n |-> 0, e |-> 0]

RECURSIVE FloatVal(_, _)
\* the float n / 10^e, in lowest terms of e
FloatVal(n, e) ==
    IF e > 0 /\ n % 10 = 0 THEN FloatVal(n \div 10, e - 1)
    ELSE [t |-> "float", s |-> "", n |-> n, e |-> e]

Digits == <<"0", "1", "2", "3", "4", "5", "6", "7", "8", "9">>
IsDigit(c) == \E d \in 1..10 : Digits[d] = c
DigitVal(c) == (CHOOSE d \in 1..10 : Digits[d] = c) - 1

RECURSIVE DecimalOf(_)
\* the number a sequence of digits writes
DecimalOf(ds) ==
    IF ds = <<>> THEN 0
    ELSE DecimalOf(SubSeq(ds, 1, Len(ds) - 1)) * 10 + DigitVal(ds[Len(ds)])

\* int(s) of Python on a str: an optional sign and one or more digits, else
\* ValueError.
py_int(s) ==
    LET cs == Chars(s)
        neg == cs # <<>> /\ cs[1] = "-"
        ds == IF neg THEN Tail(cs) ELSE cs
    IN IF ds # <<>> /\ \A i \in 1..Len(ds) : IsDigit(ds[i])
       THEN IntVal(IF neg THEN 0 - DecimalOf(ds) ELSE DecimalOf(ds))
       ELSE Raise("ValueError")

\* float(s) of Python on a str: an optional sign, digits with at most one
\* decimal point and at least one digit, else ValueError.
py_float(s) ==
    LET cs == Chars(s)
        neg == cs # <<>> /\ cs[1] = "-"
        ds == IF neg THEN Tail(cs) ELSE cs
        dots == {i \in 1..Len(ds) : ds[i] = "."}
        digs == SelectSeq(ds, IsDigit)
        e == IF dots = {} THEN 0 ELSE Len(ds) - (CHOOSE i \in dots : TRUE)
    IN IF /\ \A i \in 1..Len(ds) : IsDigit(ds[i]) \/ ds[i] = "."
          /\ Cardinality(dots) <= 1
          /\ digs # <<>>
       THEN FloatVal(IF neg THEN 0 - DecimalOf(digs) ELSE DecimalOf(digs), e)
       ELSE Raise("ValueError")

\* ------------------------------------------------------------------ csv_to_geojson.py

\* convert_to_number without its except clause: the error leaves the function.
convert_to_number_uncaught(value) ==
    IF value = Str("") \/ value = None THEN None
    ELSE IF \A i \in 1..Len(Chars(value.s)) : Chars(value.s)[i] # "."
         THEN py_int(value.s)
         ELSE py_float(value.s)

\* convert_to_number(value)
convert_to_number(value) ==
    IF value = Str("") \/ value = None THEN None
    ELSE LET r == IF \A i \in 1..Len(Chars(value.s)) : Chars(value.s)[i] # "."
                  THEN py_int(value.s)
                  ELSE py_float(value.s)
         IN IF r.t = "raise" THEN value ELSE r

numeric_fields ==
    {"capacity_mw", "year_opened", "size_sqft", "pue", "renewable_energy_pct",
     "water_usage_mgd", "carbon_intensity_gco2_kwh", "latency_zone_ms",
     "min_commitment_months", "nearest_university_miles"}

\* the allow-list taken for a deny-list
property_value_swapped(key, value) ==
    IF key \notin numeric_fields THEN convert_to_number(value)
    ELSE IF value # Str("") THEN value ELSE None

\* the value stored under key in a Feature's properties
property_value(key, value) ==
    IF key \in numeric_fields THEN convert_to_number(value)
    ELSE IF value # Str("") THEN value ELSE None

\* An integer literal: an optional sign and one or more digits.
IsIntLiteral(s) ==
    LET cs == Chars(s)
    IN \E k \in 0..1 :
          /\ Len(cs) > k
          /\ k = 1 => cs[1] = "-"
          /\ \A i \in (k + 1)..Len(cs) : IsDigit(cs[i])

\* A decimal literal: an optional sign, then digits around exactly one
\* decimal point, at least one digit in all.
IsDecimalLiteral(s) ==
    LET cs == Chars(s)
    IN \E k \in 0..1 : \E d \in (k + 1)..Len(cs) :
          /\ k = 1 => cs[1] = "-"
          /\ cs[d] = "."
          /\ \A i \in (k + 1)..Len(cs) : i # d => IsDigit(cs[i])
          /\ Len(cs) > k + 1

\* ------------------------------------------------------------------ csv.DictReader

Range(f) == {f[i] : i \in DOMAIN f}

\* One row of csv.DictReader: the dict of a data line under the header. A
\* column the line is too short for maps to None (restval); of two columns
\* of one name the later one wins.
DictRow(fieldnames, line) ==
    [k \in Range(fieldnames) |->
        LET j == CHOOSE j \in 1..Len(fieldnames) :
                    /\ fieldnames[j] = k
                    /\ \A l \in (j + 1)..Len(fieldnames) : fieldnames[l] # k
        IN IF j <= Len(line) THEN Str(line[j]) ELSE None]

\* list(csv.DictReader(f)) on the content of a file
DictReader(file) == [i \in 1..(Len(file) - 1) |-> DictRow(file[1], file[i + 1])]

\* row.get(key), None when the key is absent
Get(row, key) == IF key \in DOMAIN row THEN row[key] ELSE None

\* the dict without one key: what row.pop(key) leaves
Without(row, key) == [k \in DOMAIN row \ {key} |-> row[k]]

\* The texts the cells of a column take in the files the scripts are run on.
CellTexts(col) ==
    CASE col = "latitude" -> {"", "a", "4.2"}
      [] col = "longitude" -> {"", "-42", "4.a"}
      [] col = "capacity_mw" -> {"42"}
      [] col = "name" -> {"a"}
      [] col = "operator" -> {"", "Meta", "Acme"}
      [] col = "city" -> {"", "New York"}
      [] col = "state" -> {"NY"}
      [] col = "hiring_status" -> {"", "a"}
      [] col \in {"careers_page_url", "jobs_last_checked", "open_positions_count",
                  "job_categories"} -> {"a"}
      [] OTHER -> {"", "a"}

RECURSIVE LinesOf(_, _)
\* the lines of n cells under header h
LinesOf(h, n) ==
    IF n = 0 THEN {<<>>}
    ELSE {Append(l, c) : l \in LinesOf(h, n - 1), c \in CellTexts(h[n])}

\* A data line holds a cell for each column, or lacks the last one.
Lines(h) == LinesOf(h, Len(h)) \cup (IF Len(h) > 1 THEN LinesOf(h, Len(h) - 1) ELSE {})

\* the files of up to MaxRows data lines under one of the headers
Files(headers) ==
    UNION { UNION { {<<h>> \o body : body \in [1..n -> Lines(h)]} : n \in 0..MaxRows } :
            h \in headers }

\* ------------------------------------------------------------------ csv_to_geojson

GeoHeaders ==
    { <<"name", "latitude", "longitude", "capacity_mw">>,
      <<"name", "longitude", "latitude">>,
      <<"name", "longitude", "capacity_mw">>,
      <<"name", "latitude">> }

InitGeo ==
    /\ pc = "open"
    /\ csv \in Files(GeoHeaders)
    /\ orig = csv
    /\ header = <<>> /\ rows = <<>> /\ new_header = <<>>
    /\ idx = 0 /\ features = <<>> /\ geojson = <<>>
    /\ raised = "none" /\ arg = <<>> /\ result = None
    /\ clock = 0 /\ updated = 0 /\ stdout = <<>>

\* csv_to_geojson.py:28-29
OpenCsv ==
    /\ pc = "open"
    /\ header' = csv[1]
    /\ rows' = DictReader(csv)
    /\ pc' = "rows"
    /\ UNCHANGED <<csv, orig, new_header, idx, features, geojson, raised, arg,
                   result, clock, updated, stdout>>

\* the properties dict of a row whose coordinates were popped
properties_of(row) == [k \in DOMAIN row |-> property_value(k, row[k])]

\* the Feature with latitude first
make_feature_lat_lon(row, lat, lon) ==
    [type |-> "Feature",
     properties |-> properties_of(row),
     geometry |-> [type |-> "Point", coordinates |-> <<lat, lon>>]]

\* the Feature of a row: csv_to_geojson.py:56-63
make_feature(row, lat, lon) ==
    [type |-> "Feature",
     properties |-> properties_of(row),
     geometry |-> [type |-> "Point", coordinates |-> <<lon, lat>>]]

\* One turn of the loop over the rows, csv_to_geojson.py:31-65. row.pop of a
\* column the header lacks raises KeyError, which leaves the function.
ConvertRow ==
    /\ pc = "rows"
    /\ idx < Len(rows)
    /\ LET row == rows[idx + 1]
           has == {"latitude", "longitude"} \subseteq DOMAIN row
           lat == convert_to_number(Get(row, "latitude"))
           lon == convert_to_number(Get(row, "longitude"))
           rest == Without(Without(row, "latitude"), "longitude")
           name == IF "name" \in DOMAIN rest THEN rest["name"] ELSE Str("Unknown")
       IN IF ~has
          THEN /\ raised' = "KeyError"
               /\ pc' = "raised"
               /\ UNCHANGED <<idx, features, stdout>>
          ELSE IF lat.t = "raise" \/ lon.t = "raise"
          THEN /\ raised' = "ValueError"
               /\ pc' = "raised"
               /\ UNCHANGED <<idx, features, stdout>>
          ELSE IF lat = None \/ lon = None
          THEN /\ stdout' = Append(stdout, <<"Warning: Skipping row with missing coordinates: ", name>>)
               /\ idx' = idx + 1
               /\ UNCHANGED <<pc, raised, features>>
          ELSE /\ features' = Append(features, make_feature(rest, lat, lon))
               /\ idx' = idx + 1
               /\ UNCHANGED <<pc, raised, stdout>>
    /\ UNCHANGED <<csv, orig, header, rows, new_header, geojson, arg, result,
                   clock, updated>>

\* csv_to_geojson.py:67-80
WriteGeojson ==
    /\ pc = "rows"
    /\ idx = Len(rows)
    /\ geojson' = <<[type |-> "FeatureCollection", name |-> "datacenters",
                     features |-> features]>>
    /\ stdout' = Append(stdout, <<"Converted", Len(features)>>)
    /\ pc' = "done"
    /\ UNCHANGED <<csv, orig, header, rows, new_header, idx, features, raised,
                   arg, result, clock, updated>>

NextGeo == OpenCsv \/ ConvertRow \/ WriteGeojson

SpecGeo == InitGeo /\ [][NextGeo]_vars

\* A cell that is numeric text: a str that is an integer or a decimal literal.
IsNumericText(v) == v.t = "str" /\ (IsIntLiteral(v.s) \/ IsDecimalLiteral(v.s))

IsNumber(v) == v.t \in {"int", "float"}

\* the rows of the file the script started on
InputRows == DictReader(orig)

\* The row has valid numeric latitude and longitude.
HasNumericCoordinates(row) ==
    /\ IsNumericText(Get(row, "latitude"))
    /\ IsNumericText(Get(row, "longitude"))

\* the rows among the first n input rows with valid numeric coordinates
NumericRows(n) == SelectSeq(SubSeq(InputRows, 1, n), HasNumericCoordinates)

HasNumberCoordinates(f) ==
    IsNumber(f.geometry.coordinates[1]) /\ IsNumber(f.geometry.coordinates[2])

\* C3: the rows with valid numeric latitude and longitude each give one
\* Feature, in input order, a Point at [longitude, latitude], and no Feature
\* keeps latitude or longitude among its properties.
C3_FeaturePerNumericRow ==
    LET good == NumericRows(idx)
        made == SelectSeq(features, HasNumberCoordinates)
    IN /\ Len(made) = Len(good)
       /\ \A i \in 1..Len(good) :
             /\ made[i].type = "Feature"
             /\ made[i].geometry.type = "Point"
             /\ made[i].geometry.coordinates
                   = <<convert_to_number(good[i]["longitude"]),
                       convert_to_number(good[i]["latitude"])>>
             /\ (good[i]["latitude"] = Str("4.2") /\ good[i]["longitude"] = Str("-42")) =>
                   made[i].geometry.coordinates
                      = <<IntVal(0 - 42), [t |-> "float", s |-> "", n |-> 42, e |-> 1]>>
             /\ DOMAIN made[i].properties = DOMAIN good[i] \ {"latitude", "longitude"}
             /\ \A k \in DOMAIN made[i].properties :
                   /\ good[i][k] = Str("42") => made[i].properties[k] = IntVal(42)
                   /\ good[i][k] = None => made[i].properties[k] = None
       /\ \A i \in 1..Len(features) :
             {"latitude", "longitude"} \cap DOMAIN features[i].properties = {}
       /\ pc = "done" => geojson[1].features = features

\* C3's case: two rows at latitude 4.2 and longitude -42, the second too
\* short for its capacity, were written as two Features at [-42, 4.2], in
\* their order.
C3_Witness ==
    /\ pc = "done"
    /\ orig[1] = <<"name", "latitude", "longitude", "capacity_mw">>
    /\ Len(geojson[1].features) = 2
    /\ Len(NumericRows(Len(InputRows))) = 2
    /\ \A i \in 1..2 :
          geojson[1].features[i].geometry.coordinates
             = <<IntVal(0 - 42), [t |-> "float", s |-> "", n |-> 42, e |-> 1]>>
    /\ geojson[1].features[1].properties["capacity_mw"] = IntVal(42)
    /\ geojson[1].features[2].properties["capacity_mw"] = None

\* the rows whose latitude or longitude is missing, empty or no number
BadRows == SelectSeq(InputRows, LAMBDA row : ~HasNumericCoordinates(row))

\* C4: a row whose latitude or longitude is missing, empty or non-numeric is
\* left out: the Features written number the input rows less those rows, and
\* no Feature has a coordinate that is not a number.
C4_BadRowsExcluded ==
    /\ \A i \in 1..Len(features) : HasNumberCoordinates(features[i])
    /\ pc = "done" =>
          Len(geojson[1].features) = Len(InputRows) - Len(BadRows)

\* C9: no row aborts the conversion: it runs through every row and writes the
\* FeatureCollection, whatever the header and the coordinates are.
C9_NeverAborts ==
    /\ raised = "none"
    /\ pc # "raised"
    /\ pc = "done" => (idx = Len(InputRows) /\ Len(geojson) = 1)

\* ------------------------------------------------------------------ one field of one row

\* the column names the conversion of a field is tried under
ConvertKeys == {"capacity_mw", "pue", "name", "notes"}

\* A cell as csv.DictReader hands it over: a str, or None for a cell the line
\* is too short to hold.
CellValues == {Str(s) : s \in Texts} \cup {None}

InitConvert ==
    /\ pc = "call"
    /\ arg \in [key : ConvertKeys, value : CellValues]
    /\ result = None
    /\ raised = "none"
    /\ csv = <<>> /\ orig = <<>> /\ header = <<>> /\ rows = <<>>
    /\ new_header = <<>> /\ idx = 0 /\ features = <<>> /\ geojson = <<>>
    /\ clock = 0 /\ updated = 0 /\ stdout = <<>>

\* csv_to_geojson.py:48-53 on one (key, value) of a row
ConvertField ==
    /\ pc = "call"
    /\ LET r == property_value(arg.key, arg.value)
       IN IF r.t = "raise"
          THEN /\ raised' = r.s
               /\ pc' = "raised"
               /\ result' = result
          ELSE /\ result' = r
               /\ pc' = "returned"
               /\ raised' = raised
    /\ UNCHANGED <<csv, orig, header, rows, new_header, idx, features, geojson,
                   arg, clock, updated, stdout>>

NextConvert == ConvertField

SpecConvert == InitConvert /\ [][NextConvert]_vars

\* C5: an allow-list field holding an integer literal becomes an int ("42" is
\* 42), one holding a decimal literal becomes a float ("4.2" is 4.2), one
\* that is empty or missing becomes None; a field outside the allow-list keeps
\* its string, the empty string becoming None.
C5_FieldTyping ==
    pc = "returned" =>
        LET v == arg.value
        IN IF arg.key \in numeric_fields
           THEN /\ (v.t = "str" /\ IsIntLiteral(v.s)) => result.t = "int"
                /\ (v.t = "str" /\ IsDecimalLiteral(v.s)) => result.t = "float"
                /\ v = Str("42") => result = IntVal(42)
                /\ v = Str("-4") => result = IntVal(0 - 4)
                /\ v = Str("4.2") => result = [t |-> "float", s |-> "", n |-> 42, e |-> 1]
                /\ v = Str("2.") => result = [t |-> "float", s |-> "", n |-> 2, e |-> 0]
                /\ (v = Str("") \/ v = None) =>
                       /\ result = None
                       /\ result # IntVal(0)
                       /\ result # Str("")
           ELSE /\ (v.t = "str" /\ v.s # "") => result = v
                /\ (v = Str("") \/ v = None) => result = None

\* C5's case: an allow-list field was given "4.2" and came back a float.
C5_Witness ==
    /\ pc = "returned"
    /\ arg.key = "capacity_mw"
    /\ arg.value = Str("4.2")
    /\ result.t = "float"

\* C10: the conversion never raises, and what it stores for an allow-list
\* field is an int, a float, None or the very string it was given; a non-empty
\* string that is no number comes back unchanged.
C10_NeverRaises ==
    /\ raised = "none"
    /\ pc # "raised"
    /\ (pc = "returned" /\ arg.key \in numeric_fields) =>
          /\ result.t \in {"int", "float", "None"} \/ result = arg.value
          /\ ( /\ arg.value.t = "str"
               /\ arg.value.s # ""
               /\ ~IsIntLiteral(arg.value.s)
               /\ ~IsDecimalLiteral(arg.value.s) ) => result = arg.value

\* C10's case: an allow-list field held a malformed number and kept it.
C10_Witness ==
    /\ pc = "returned"
    /\ arg.key = "pue"
    /\ arg.value = Str("4.a")
    /\ result = Str("4.a")

\* ------------------------------------------------------------------ csv.DictWriter

\* the text csv.writer writes for a value: None is written as the empty cell
CellText(v) == IF v = None THEN "" ELSE v.s

\* DictWriter.writerow(row) raises ValueError for a row with a key that is no
\* fieldname (extrasaction='raise').
CanWrite(fieldnames, row) == DOMAIN row \subseteq Range(fieldnames)

\* the line DictWriter.writerow(row) writes under fieldnames
DictLine(fieldnames, row) ==
    [j \in 1..Len(fieldnames) |->
        IF fieldnames[j] \in DOMAIN row THEN CellText(row[fieldnames[j]]) ELSE ""]

\* ------------------------------------------------------------------ add_jobs_fields.py

new_fields ==
    <<"careers_page_url", "jobs_last_checked", "open_positions_count",
      "job_categories", "hiring_status">>

\* a search that answers the last position for a value the list lacks
index_or_last(seq, x) ==
    IF x \in Range(seq)
    THEN CHOOSE j \in 1..Len(seq) : seq[j] = x /\ \A l \in 1..(j - 1) : seq[l] # x
    ELSE Len(seq)

\* list.index(x): the first position of x, counted from 1; 0 stands for the
\* ValueError of a list that lacks x
index(seq, x) ==
    IF x \in Range(seq)
    THEN CHOOSE j \in 1..Len(seq) : seq[j] = x /\ \A l \in 1..(j - 1) : seq[l] # x
    ELSE 0

ExtHeaders ==
    { <<"id", "notes">>, <<"notes">>, <<"notes", "id">>, <<"id", "notes", "extra">>,
      <<"id">>, <<"id", "extra">> }

InitExt ==
    /\ pc = "read"
    /\ csv \in Files(ExtHeaders)
    /\ orig = csv
    /\ header = <<>> /\ rows = <<>> /\ new_header = <<>>
    /\ idx = 0 /\ features = <<>> /\ geojson = <<>>
    /\ raised = "none" /\ arg = <<>> /\ result = None
    /\ clock = 0 /\ updated = 0 /\ stdout = <<>>

\* add_jobs_fields.py:22-27
ReadCsv ==
    /\ pc = "read"
    /\ header' = csv[1]
    /\ rows' = DictReader(csv)
    /\ pc' = "index"
    /\ UNCHANGED <<csv, orig, new_header, idx, features, geojson, raised, arg,
                   result, clock, updated, stdout>>

\* add_jobs_fields.py:29-31
InsertFields ==
    /\ pc = "index"
    /\ LET notes_index == index(header, "notes")
       IN IF notes_index = 0
          THEN /\ raised' = "ValueError"
               /\ pc' = "raised"
               /\ new_header' = new_header
          ELSE /\ new_header' = SubSeq(header, 1, notes_index - 1) \o new_fields
                                   \o <<header[notes_index]>>
               /\ pc' = "open"
               /\ raised' = raised
    /\ UNCHANGED <<csv, orig, header, rows, idx, features, geojson, arg, result,
                   clock, updated, stdout>>

\* add_jobs_fields.py:34-36: open(csv_path, 'w') empties the file, writeheader
\* writes the new header
WriteHeader ==
    /\ pc = "open"
    /\ csv' = <<new_header>>
    /\ pc' = "write"
    /\ UNCHANGED <<orig, header, rows, new_header, idx, features, geojson, raised,
                   arg, result, clock, updated, stdout>>

\* the row with the new fields set to '': add_jobs_fields.py:40-41
with_new_fields(row) ==
    [k \in DOMAIN row \cup Range(new_fields) |->
        IF k \in Range(new_fields) THEN Str("") ELSE row[k]]

\* add_jobs_fields.py:38-42, one row; a ValueError of writerow leaves the
\* function, the with block closing the file on what was written so far
WriteRow ==
    /\ pc = "write"
    /\ idx < Len(rows)
    /\ LET row == with_new_fields(rows[idx + 1])
       IN IF CanWrite(new_header, row)
          THEN /\ csv' = Append(csv, DictLine(new_header, row))
               /\ idx' = idx + 1
               /\ UNCHANGED <<pc, raised>>
          ELSE /\ raised' = "ValueError"
               /\ pc' = "raised"
               /\ UNCHANGED <<csv, idx>>
    /\ UNCHANGED <<orig, header, rows, new_header, features, geojson, arg, result,
                   clock, updated, stdout>>

\* add_jobs_fields.py:44-46
ReportFields ==
    /\ pc = "write"
    /\ idx = Len(rows)
    /\ stdout' = Append(stdout, <<"Added", Len(new_fields), "Total fields now", Len(new_header)>>)
    /\ pc' = "done"
    /\ UNCHANGED <<csv, orig, header, rows, new_header, idx, features, geojson,
                   raised, arg, result, clock, updated>>

NextExt == ReadCsv \/ InsertFields \/ WriteHeader \/ WriteRow \/ ReportFields

SpecExt == InitExt /\ [][NextExt]_vars

\* C1: on a file whose header holds 'notes', wherever it stands, the run
\* completes with five columns more than the input, the five new names right
\* before 'notes', and every input row kept with '' in the five new fields.
C1_FieldsInserted ==
    (pc \in {"done", "raised"} /\ "notes" \in Range(orig[1])) =>
        /\ pc = "done"
        /\ Len(csv[1]) = Len(orig[1]) + 5
        /\ LET at == index(csv[1], "notes")
           IN /\ at > 5
              /\ SubSeq(csv[1], at - 5, at - 1) = new_fields
        /\ Len(csv) = Len(orig)
        /\ \A i \in 2..Len(csv) :
              LET was == DictRow(orig[1], orig[i])
                  now == DictRow(csv[1], csv[i])
              IN /\ \A k \in DOMAIN was : CellText(now[k]) = CellText(was[k])
                 /\ \A j \in 1..5 : now[new_fields[j]] = Str("")

\* C2: on a file whose header lacks 'notes' the run fails before it opens the
\* file for writing: the file keeps the content it had.
C2_NoAnchorNoWrite ==
    "notes" \notin Range(orig[1]) =>
        /\ csv = orig
        /\ pc \in {"read", "index", "raised"}
        /\ pc = "raised" => raised = "ValueError"

\* C2's case: a file of two data lines without 'notes' was read and the run
\* has ended with the ValueError of header.index.
C2_Witness ==
    /\ "notes" \notin Range(orig[1])
    /\ Len(orig) = 3
    /\ Len(rows) = 2
    /\ pc = "raised"
    /\ raised = "ValueError"

\* ------------------------------------------------------------------ scrape_careers.py

\* A URL template is its pieces in order, a placeholder such as {city} a
\* piece of its own.
CAREER_PAGES ==
    ("Amazon Web Services" :>
        [url |-> <<"https://www.amazon.jobs/en/search?base_query=data+center&loc_query=">>,
         type |-> "json"]) @@
    ("Google" :>
        [url |-> <<"https://www.google.com/about/careers/applications/jobs/results/?q=data%20center">>,
         type |-> "json"]) @@
    ("Microsoft" :>
        [url |-> <<"https://careers.microsoft.com/us/en/search-results?keywords=data%20center">>,
         type |-> "json"]) @@
    ("Meta" :>
        [url |-> <<"https://www.metacareers.com/jobs?q=data%20center">>,
         type |-> "greenhouse"]) @@
    ("Equinix" :> [url |-> <<"https://careers.equinix.com/jobs">>, type |-> "workday"]) @@
    ("Digital Realty" :>
        [url |-> <<"https://www.digitalrealty.com/careers">>, type |-> "workday"]) @@
    ("CoreSite" :> [url |-> <<"https://www.coresite.com/careers">>, type |-> "workday"]) @@
    ("Switch" :> [url |-> <<"https://www.switch.com/careers/">>, type |-> "custom"]) @@
    ("CyrusOne" :> [url |-> <<"https://www.cyrusone.com/careers/">>, type |-> "custom"])

AGGREGATOR_PATTERNS ==
    ("linkedin" :>
        <<"https://www.linkedin.com/jobs/search/?keywords=", "{operator}", "%20",
          "{city}", "&location=", "{city}", "%2C%20", "{state}">>) @@
    ("indeed" :>
        <<"https://www.indeed.com/jobs?q=", "{operator}", "%20", "{city}", "&l=",
          "{city}", "%2C%20", "{state}">>) @@
    ("glassdoor" :>
        <<"https://www.glassdoor.com/Job/jobs.htm?sc.keyword=", "{operator}", "%20",
          "{city}", "&locT=C&locId=", "{city}">>)

\* the characters urllib.parse.quote_plus leaves as they are
SafeChars ==
    {"A", "B", "C", "D", "E", "F", "G", "H", "I", "J", "K", "L", "M", "N", "O", "P",
     "Q", "R", "S", "T", "U", "V", "W", "X", "Y", "Z",
     "a", "b", "c", "d", "e", "f", "g", "h", "i", "j", "k", "l", "m", "n", "o", "p",
     "q", "r", "s", "t", "u", "v", "w", "x", "y", "z",
     "0", "1", "2", "3", "4", "5", "6", "7", "8", "9", "_", ".", "-", "~"}

\* quote_plus of one character
QuoteChar(c) ==
    CASE c \in SafeChars -> c
      [] c = " " -> "+"
      [] c = "&" -> "%26"
      [] c = "," -> "%2C"
      [] c = "/" -> "%2F"

\* urllib.parse.quote_plus(s)
quote_plus(s) == Join([i \in 1..Len(Chars(s)) |-> QuoteChar(Chars(s)[i])])

\* bool(v) of None or a str
Truthy(v) == v # None /\ v # Str("")

\* template.replace(placeholder, text)
Replace(template, placeholder, text) ==
    [i \in 1..Len(template) |-> IF template[i] = placeholder THEN text ELSE template[i]]

\* the URL generator answering '' where it has no template
get_career_page_url_blank(operator, city, state) ==
    IF operator.s \in DOMAIN CAREER_PAGES
    THEN Str(Join(CAREER_PAGES[operator.s].url) \o (IF Truthy(city) THEN quote_plus(city.s) ELSE ""))
    ELSE Str("")

\* get_career_page_url(operator, city=None, state=None)
get_career_page_url(operator, city, state) ==
    IF operator.s \in DOMAIN CAREER_PAGES
    THEN LET base0 == CAREER_PAGES[operator.s].url
             base1 == IF Truthy(city) /\ "{city}" \in Range(base0)
                      THEN Replace(base0, "{city}", quote_plus(city.s))
                      ELSE base0
             base2 == IF Truthy(state) /\ "{state}" \in Range(base1)
                      THEN Replace(base1, "{state}", quote_plus(state.s))
                      ELSE base1
         IN Str(Join(base2))
    ELSE None

\* get_aggregator_urls(operator, city, state): pattern.format(...)
get_aggregator_urls(operator, city, state) ==
    [name \in DOMAIN AGGREGATOR_PATTERNS |->
        Join(Replace(Replace(Replace(AGGREGATOR_PATTERNS[name],
                                     "{operator}", quote_plus(operator.s)),
                             "{city}", quote_plus(city.s)),
                     "{state}", state.s))]

\* datetime.isoformat() of the clock's reading
isoformat(t) == "2025-01-01T00:00:0" \o Digits[t + 1]

\* scrape_operator_jobs(operator, city=None, state=None), the clock read as now
scrape_operator_jobs(operator, city, state, now) ==
    [operator |-> operator,
     location |-> IF Truthy(city) /\ Truthy(state)
                  THEN city.s \o ", " \o state.s ELSE "All locations",
     career_page |-> get_career_page_url(operator, city, state),
     aggregator_urls |-> IF Truthy(city) /\ Truthy(state)
                         THEN get_aggregator_urls(operator, city, state)
                         ELSE <<>>,
     last_checked |-> isoformat(now),
     jobs_found |-> 0,
     job_categories |-> <<>>,
     hiring_status |-> "Unknown",
     sample_jobs |-> <<>>]

\* ------------------------------------------------------------------ one call of scrape_operator_jobs

ScrapeOperators == {"Meta", "Google", "Acme", "AT&T", ""}
ScrapeCities == {None, Str(""), Str("Austin"), Str("New York")}
ScrapeStates == {None, Str(""), Str("TX")}

InitScrape ==
    /\ pc = "call"
    /\ arg \in [operator : {Str(o) : o \in ScrapeOperators}, city : ScrapeCities,
                state : ScrapeStates]
    /\ result = None
    /\ raised = "none"
    /\ clock = 1
    /\ csv = <<>> /\ orig = <<>> /\ header = <<>> /\ rows = <<>>
    /\ new_header = <<>> /\ idx = 0 /\ features = <<>> /\ geojson = <<>>
    /\ updated = 0 /\ stdout = <<>>

\* scrape_careers.py:102-118
ScrapeJobs ==
    /\ pc = "call"
    /\ \E now \in clock..MaxClock :
          /\ clock' = now
          /\ result' = scrape_operator_jobs(arg.operator, arg.city, arg.state, now)
    /\ pc' = "returned"
    /\ UNCHANGED <<csv, orig, header, rows, new_header, idx, features, geojson,
                   raised, arg, updated, stdout>>

NextScrape == ScrapeJobs

SpecScrape == InitScrape /\ [][NextScrape]_vars

\* C7: for "Meta" without city and state the career page is the Meta
\* template as it stands; for an operator the table lacks it is None, and the
\* aggregator URLs are one per pattern when city and state are both given and
\* none at all when one of them is absent.
C7_CareerUrls ==
    pc = "returned" =>
        /\ (arg.operator = Str("Meta") /\ arg.city = None /\ arg.state = None) =>
              result.career_page = Str("https://www.metacareers.com/jobs?q=data%20center")
        /\ arg.operator.s \notin DOMAIN CAREER_PAGES =>
              /\ result.career_page = None
              /\ raised = "none"
              /\ (Truthy(arg.city) /\ Truthy(arg.state)) =>
                    /\ DOMAIN result.aggregator_urls = {"linkedin", "indeed", "glassdoor"}
                    /\ \A a \in DOMAIN result.aggregator_urls :
                          result.aggregator_urls[a] # ""
              /\ ~(Truthy(arg.city) /\ Truthy(arg.state)) =>
                    DOMAIN result.aggregator_urls = {}

\* C7's case: an operator the table lacks, asked with city and state, has no
\* career page and a LinkedIn search URL.
C7_Witness ==
    /\ pc = "returned"
    /\ arg.operator = Str("AT&T")
    /\ arg.city = Str("New York")
    /\ arg.state = Str("TX")
    /\ result.career_page = None
    /\ result.aggregator_urls["linkedin"]
          = "https://www.linkedin.com/jobs/search/?keywords=AT%26T%20New+York&location=New+York%2C%20TX"

\* ------------------------------------------------------------------ update_csv_with_careers

career_fields ==
    <<"careers_page_url", "jobs_last_checked", "open_positions_count",
      "job_categories", "hiring_status">>

CareerHeaders ==
    { <<"operator", "city", "state">> \o career_fields,
      <<"operator", "city", "state">>,
      <<"operator", "city", "state">> \o SubSeq(career_fields, 1, 4),
      <<"operator">> \o career_fields }

InitCareers ==
    /\ pc = "read"
    /\ csv \in Files(CareerHeaders)
    /\ orig = csv
    /\ header = <<>> /\ rows = <<>> /\ new_header = <<>>
    /\ idx = 0 /\ features = <<>> /\ geojson = <<>>
    /\ raised = "none" /\ arg = <<>> /\ result = Str("pending")
    /\ clock = 1 /\ updated = 0 /\ stdout = <<>>

\* scrape_careers.py:125-129
ReadCareers ==
    /\ pc = "read"
    /\ header' = csv[1]
    /\ rows' = DictReader(csv)
    /\ pc' = "check"
    /\ UNCHANGED <<csv, orig, new_header, idx, features, geojson, raised, arg,
                   result, clock, updated, stdout>>

has_career_fields(fieldnames) ==
    \A j \in 1..Len(career_fields) : career_fields[j] \in Range(fieldnames)

\* scrape_careers.py:131-137: without the career fields the function prints
\* and returns (None)
CheckFields ==
    /\ pc = "check"
    /\ IF ~has_career_fields(header)
       THEN /\ stdout' = Append(stdout, "CSV missing career fields. Add them first.")
            /\ result' = None
            /\ pc' = "returned"
       ELSE /\ pc' = "update"
            /\ UNCHANGED <<stdout, result>>
    /\ UNCHANGED <<csv, orig, header, rows, new_header, idx, features, geojson,
                   raised, arg, clock, updated>>

\* the assignments with hiring_status left out
with_career_data_partial(row, job_data) ==
    [k \in DOMAIN row \cup Range(SubSeq(career_fields, 1, 4)) |->
        CASE k = "careers_page_url" ->
                 IF Truthy(job_data.career_page) THEN job_data.career_page ELSE Str("")
          [] k = "jobs_last_checked" -> Str(job_data.last_checked)
          [] k = "open_positions_count" -> Str("0")
          [] k = "job_categories" -> Str("")
          [] OTHER -> row[k]]

\* the row after scrape_careers.py:148-152; job_data['jobs_found'] is 0 and
\* job_data['job_categories'] is empty
with_career_data(row, job_data) ==
    [k \in DOMAIN row \cup Range(career_fields) |->
        CASE k = "careers_page_url" ->
                 IF Truthy(job_data.career_page) THEN job_data.career_page ELSE Str("")
          [] k = "jobs_last_checked" -> Str(job_data.last_checked)
          [] k = "open_positions_count" ->
                 Str(IF job_data.jobs_found = 0 THEN "0" ELSE "?")
          [] k = "job_categories" ->
                 Str(IF job_data.job_categories = <<>> THEN "" ELSE "?")
          [] k = "hiring_status" -> Str(job_data.hiring_status)
          [] OTHER -> row[k]]

\* scrape_careers.py:141-154, one row
UpdateRow ==
    /\ pc = "update"
    /\ idx < Len(rows)
    /\ LET row == rows[idx + 1]
           operator == Get(row, "operator")
           city == Get(row, "city")
           state == Get(row, "state")
       IN IF Truthy(operator)
          THEN \E now \in clock..MaxClock :
                  /\ clock' = now
                  /\ rows' = [rows EXCEPT ![idx + 1] =
                                 with_career_data(row,
                                     scrape_operator_jobs(operator, city, state, now))]
                  /\ updated' = updated + 1
                  /\ stdout' = Append(stdout, "Updated careers for " \o operator.s)
          ELSE UNCHANGED <<clock, rows, updated, stdout>>
    /\ idx' = idx + 1
    /\ UNCHANGED <<pc, csv, orig, header, new_header, features, geojson, raised,
                   arg, result>>

\* scrape_careers.py:156-162: the file is emptied and written anew, header
\* first; the function returns None
WriteBack ==
    /\ pc = "update"
    /\ idx = Len(rows)
    /\ LET bad == {i \in 1..Len(rows) : ~CanWrite(header, rows[i])}
           stop == IF bad = {} THEN Len(rows)
                   ELSE (CHOOSE i \in bad : \A l \in bad : i <= l) - 1
       IN /\ csv' = <<header>> \o [i \in 1..stop |-> DictLine(header, rows[i])]
          /\ IF bad = {}
             THEN /\ stdout' = Append(stdout, "Updated facilities with career data")
                  /\ result' = None
                  /\ pc' = "returned"
                  /\ raised' = raised
             ELSE /\ raised' = "ValueError"
                  /\ pc' = "raised"
                  /\ UNCHANGED <<stdout, result>>
    /\ UNCHANGED <<orig, header, rows, new_header, idx, features, geojson, arg,
                   clock, updated>>

NextCareers == ReadCareers \/ CheckFields \/ UpdateRow \/ WriteBack

SpecCareers == InitCareers /\ [][NextCareers]_vars

\* What the caller of a successful update gets: the function returns None and
\* raises nothing.
SuccessOutcome == [returned |-> None, raised |-> "none"]

\* what the caller of the call that has ended got
Outcome == [returned |-> result, raised |-> raised]

\* C6: on a header that lacks one of the five career columns the update
\* writes nothing, and what the caller gets differs from what the caller of a
\* successful update gets.
C6_MissingFieldsFailure ==
    (pc \in {"returned", "raised"} /\ ~has_career_fields(orig[1])) =>
        /\ csv = orig
        /\ Outcome # SuccessOutcome

\* the career page written for an operator: its template, or ''
ExpectedUrl(operator) ==
    IF operator.s \in DOMAIN CAREER_PAGES THEN Join(CAREER_PAGES[operator.s].url) ELSE ""

\* The career columns of a written row hold the placeholder values.
HasPlaceholders(was, now) ==
    /\ now["careers_page_url"] = Str(ExpectedUrl(Get(was, "operator")))
    /\ \E t \in 1..MaxClock : now["jobs_last_checked"] = Str(isoformat(t))
    /\ now["open_positions_count"] = Str("0")
    /\ now["job_categories"] = Str("")
    /\ now["hiring_status"] = Str("Unknown")

\* The columns of a written row outside cols hold the text they held.
KeepsOutside(was, now, cols) ==
    \A k \in DOMAIN was \ cols : CellText(now[k]) = CellText(was[k])

====
